---------------------------- MODULE Spec2Model ----------------------------
(***************************************************************************)
(* Chord transposition of src/main.py (transpose_song, transpose_chord,    *)
(* normalize_chord, NOTES).  A Python str is a sequence of one-character   *)
(* strings; the non-ASCII letter o-acute of the lyrics is the atom "o'".   *)
(***************************************************************************)
EXTENDS Integers, Sequences, FiniteSets, TLC

VARIABLES
    song_text,      \* argument of transpose_song
    original_key,   \* argument of transpose_song
    target_key,     \* argument of transpose_song
    pc,             \* "called", "returned" or "raised"
    result,         \* what the call returned or raised
    matched,        \* spans of the matches handed to replace_chord, in order
    replaced,       \* what replace_chord returned for each match, in order
    song_semitones, \* the local semitones of the call, -1 before it is set
    calls,          \* interleaved calls: the locals of each transpose_song call
    notes,          \* the module-level list NOTES that every call reads
    users,          \* table users: rows [id, email]
    songs,          \* table songs: rows of saved transpositions
    user_seq,       \* AUTOINCREMENT sequence of users
    song_seq,       \* AUTOINCREMENT sequence of songs
    request,        \* the HTTP request handled last
    response        \* the answer to it

songVars == <<song_text, original_key, target_key, pc, result, matched,
              replaced, song_semitones>>

concVars == <<calls, notes>>

apiVars == <<users, songs, user_seq, song_seq, request, response>>

vars == <<songVars, concVars, apiVars>>

(***************************************************************************)
(* Bounds                                                                  *)
(***************************************************************************)
MaxLen == 3

MaxKeyLen == 3

(***************************************************************************)
(* Character classes of Python's re module on str patterns                 *)
(***************************************************************************)
UpperCase ==
    {"A","B","C","D","E","F","G","H","I","J","K","L","M",
     "N","O","P","Q","R","S","T","U","V","W","X","Y","Z"}

LowerCase ==
    {"a","b","c","d","e","f","g","h","i","j","k","l","m",
     "n","o","p","q","r","s","t","u","v","w","x","y","z"}

Digits == {"0","1","2","3","4","5","6","7","8","9"}

AccentedLetters == {"o'"}

Whitespace == {" ", "\n", "\t", "\r"}

\* \w : Unicode alphanumerics and the underscore
WordChars == UpperCase \cup LowerCase \cup Digits \cup AccentedLetters \cup {"_"}

IsWordChar(c) == c \in WordChars

\* \b at offset i of s (i characters lie to the left of the position)
Boundary(s, i) ==
    LET left  == i > 0 /\ IsWordChar(s[i])
        right == i < Len(s) /\ IsWordChar(s[i + 1])
    IN  left # right

(***************************************************************************)
(* Pitch tables                                                            *)
(***************************************************************************)
NOTES ==
    << <<"C">>, <<"C","#">>, <<"D">>, <<"D","#">>, <<"E">>, <<"F">>,
       <<"F","#">>, <<"G">>, <<"G","#">>, <<"A">>, <<"A","#">>, <<"B">> >>

\* the table with the entry for Gb left out
replacements_missing ==
    << << <<"D","b">>, <<"C","#">> >>,
       << <<"E","b">>, <<"D","#">> >>,
       << <<"A","b">>, <<"G","#">> >>,
       << <<"B","b">>, <<"A","#">> >> >>

replacements ==
    << << <<"D","b">>, <<"C","#">> >>,
       << <<"E","b">>, <<"D","#">> >>,
       << <<"G","b">>, <<"F","#">> >>,
       << <<"A","b">>, <<"G","#">> >>,
       << <<"B","b">>, <<"A","#">> >> >>

InNOTES(x) == \E i \in 1..Len(NOTES) : NOTES[i] = x

\* list.index: the 0-based position, or -1 where Python raises ValueError
NOTES_index(x) ==
    IF InNOTES(x) THEN (CHOOSE i \in 1..Len(NOTES) : NOTES[i] = x) - 1 ELSE -1

\* Python's % with a positive modulus
PyMod(a, n) == a % n

(***************************************************************************)
(* normalize_chord                                                         *)
(***************************************************************************)
RECURSIVE str_replace(_, _, _)
\* s.replace(old, new) for a non-empty old: leftmost, non-overlapping
str_replace(s, old, new) ==
    IF Len(s) < Len(old) THEN s
    ELSE IF SubSeq(s, 1, Len(old)) = old
         THEN new \o str_replace(SubSeq(s, Len(old) + 1, Len(s)), old, new)
         ELSE <<s[1]>> \o str_replace(Tail(s), old, new)

RECURSIVE ApplyReplacements(_, _, _)
ApplyReplacements(chord, table, i) ==
    IF i > Len(table) THEN chord
    ELSE ApplyReplacements(str_replace(chord, table[i][1], table[i][2]), table, i + 1)

\* Gb mapped to G# instead of F#
normalize_chord_typo(chord) ==
    ApplyReplacements(chord,
        << << <<"D","b">>, <<"C","#">> >>,
           << <<"E","b">>, <<"D","#">> >>,
           << <<"G","b">>, <<"G","#">> >>,
           << <<"A","b">>, <<"G","#">> >>,
           << <<"B","b">>, <<"A","#">> >> >>, 1)

normalize_chord(chord) == ApplyReplacements(chord, replacements, 1)

(***************************************************************************)
(* Outcomes of a call: a returned str or a raised exception                *)
(***************************************************************************)
Returned(v) == [exc |-> "none", msg |-> "", value |-> v]

Raised(e, m) == [exc |-> e, msg |-> m, value |-> <<>>]

(***************************************************************************)
(* transpose_chord                                                         *)
(***************************************************************************)
Letters == {"A","B","C","D","E","F","G"}

Accidentals == {"#","b"}

IsBlank(chord) == \A i \in 1..Len(chord) : chord[i] \in Whitespace

\* re.match(r'^([A-G][#b]?)', chord).group(1), or <<>> when there is no match
root_match(chord) ==
    IF Len(chord) = 0 \/ chord[1] \notin Letters THEN <<>>
    ELSE IF Len(chord) >= 2 /\ chord[2] \in Accidentals
         THEN SubSeq(chord, 1, 2)
         ELSE SubSeq(chord, 1, 1)

\* without the test "root not in NOTES" before NOTES.index(root)
transpose_chord_noguard(chord0, semitones) ==
    IF chord0 = <<>> \/ IsBlank(chord0) THEN Returned(chord0)
    ELSE LET chord  == normalize_chord(chord0)
             root0  == root_match(chord)
             suffix == SubSeq(chord, Len(root0) + 1, Len(chord))
             root   == IF \E i \in 1..Len(root0) : root0[i] = "b"
                       THEN normalize_chord(root0) ELSE root0
         IN  IF root0 = <<>> THEN Returned(chord)
             ELSE LET old_index == NOTES_index(root)
                      new_index == PyMod(old_index + semitones, 12)
                  IN  IF old_index = -1
                      THEN Raised("ValueError", "not in list")
                      ELSE Returned(NOTES[new_index + 1] \o suffix)

\* root and suffix joined with a blank
transpose_chord_spaced(chord0, semitones) ==
    IF chord0 = <<>> \/ IsBlank(chord0) THEN Returned(chord0)
    ELSE LET chord  == normalize_chord(chord0)
             root0  == root_match(chord)
             suffix == SubSeq(chord, Len(root0) + 1, Len(chord))
             root   == IF \E i \in 1..Len(root0) : root0[i] = "b"
                       THEN normalize_chord(root0) ELSE root0
         IN  IF root0 = <<>> THEN Returned(chord)
             ELSE IF ~InNOTES(root) THEN Returned(chord)
             ELSE LET old_index == NOTES_index(root)
                      new_index == PyMod(old_index + semitones, 12)
                  IN  Returned(NOTES[new_index + 1] \o <<" ">> \o suffix)

\* a root outside NOTES falls back to its letter
transpose_chord_letter(chord0, semitones) ==
    IF chord0 = <<>> \/ IsBlank(chord0) THEN Returned(chord0)
    ELSE LET chord  == normalize_chord(chord0)
             root0  == root_match(chord)
             root1  == IF \E i \in 1..Len(root0) : root0[i] = "b"
                       THEN normalize_chord(root0) ELSE root0
             root   == IF InNOTES(root1) THEN root1 ELSE SubSeq(root1, 1, 1)
             suffix == SubSeq(chord, Len(root) + 1, Len(chord))
         IN  IF root0 = <<>> THEN Returned(chord)
             ELSE IF ~InNOTES(root) THEN Returned(chord)
             ELSE Returned(NOTES[PyMod(NOTES_index(root) + semitones, 12) + 1] \o suffix)

\* a shift by 0 hands the chord back as it came
transpose_chord_shortcut(chord0, semitones) ==
    IF chord0 = <<>> \/ IsBlank(chord0) \/ semitones = 0 THEN Returned(chord0)
    ELSE LET chord  == normalize_chord(chord0)
             root0  == root_match(chord)
             suffix == SubSeq(chord, Len(root0) + 1, Len(chord))
             root   == IF \E i \in 1..Len(root0) : root0[i] = "b"
                       THEN normalize_chord(root0) ELSE root0
         IN  IF root0 = <<>> THEN Returned(chord)
             ELSE IF ~InNOTES(root) THEN Returned(chord)
             ELSE Returned(NOTES[PyMod(NOTES_index(root) + semitones, 12) + 1] \o suffix)

transpose_chord(chord0, semitones) ==
    IF chord0 = <<>> \/ IsBlank(chord0) THEN Returned(chord0)
    ELSE LET chord  == normalize_chord(chord0)
             root0  == root_match(chord)
             suffix == SubSeq(chord, Len(root0) + 1, Len(chord))
             root   == IF \E i \in 1..Len(root0) : root0[i] = "b"
                       THEN normalize_chord(root0) ELSE root0
         IN  IF root0 = <<>> THEN Returned(chord)
             ELSE IF ~InNOTES(root) THEN Returned(chord)
             ELSE LET old_index == NOTES_index(root)
                      new_index == PyMod(old_index + semitones, 12)
                  IN  IF old_index = -1
                      THEN Raised("ValueError", "not in list")
                      ELSE Returned(NOTES[new_index + 1] \o suffix)

(***************************************************************************)
(* chord_pattern and re.sub                                                *)
(***************************************************************************)
markers ==
    << <<"m">>, <<"m","a","j">>, <<"m","i","n">>, <<"d","i","m">>,
       <<"a","u","g">>, <<"s","u","s">>, <<"a","d","d">> >>

\* number of characters alternative a of (?:m|maj|min|dim|aug|sus|add|[0-9])
\* consumes at offset i, 0 when it does not match
AltLen(s, i, a) ==
    IF a <= Len(markers)
    THEN IF i + Len(markers[a]) <= Len(s)
            /\ SubSeq(s, i + 1, i + Len(markers[a])) = markers[a]
         THEN Len(markers[a]) ELSE 0
    ELSE IF i < Len(s) /\ s[i + 1] \in Digits THEN 1 ELSE 0

RECURSIVE match_markers(_, _, _)
\* (?:...)*\b from offset i, trying alternatives a.. of the current
\* iteration in order (backtracking); the end offset of the match, or -1
match_markers(s, i, a) ==
    IF a > Len(markers) + 1
    THEN IF Boundary(s, i) THEN i ELSE -1
    ELSE LET n == AltLen(s, i, a)
             r == IF n > 0 THEN match_markers(s, i + n, 1) ELSE -1
         IN  IF r # -1 THEN r ELSE match_markers(s, i, a + 1)

\* chord_pattern matched at offset p: the end offset of the match, or -1
match_at(s, p) ==
    IF p >= Len(s) \/ ~Boundary(s, p) \/ s[p + 1] \notin Letters THEN -1
    ELSE LET withAcc == IF p + 1 < Len(s) /\ s[p + 2] \in Accidentals
                        THEN match_markers(s, p + 2, 1) ELSE -1
         IN  IF withAcc # -1 THEN withAcc ELSE match_markers(s, p + 1, 1)

RECURSIVE re_sub_skip(_, _, _)
\* the scan resumes one character after the end of a match
re_sub_skip(s, pos, semitones) ==
    IF pos >= Len(s) THEN Returned(<<>>)
    ELSE LET e == match_at(s, pos)
         IN  IF e = -1
             THEN LET rest == re_sub_skip(s, pos + 1, semitones)
                  IN  IF rest.exc # "none" THEN rest
                      ELSE Returned(<<s[pos + 1]>> \o rest.value)
             ELSE LET r == transpose_chord(SubSeq(s, pos + 1, e), semitones)
                  IN  IF r.exc # "none" THEN r
                      ELSE LET rest == re_sub_skip(s, e + 1, semitones)
                           IN  IF rest.exc # "none" THEN rest
                               ELSE Returned(r.value \o rest.value)

RECURSIVE re_sub(_, _, _)
\* re.sub(chord_pattern, replace_chord, s) from offset pos on
re_sub(s, pos, semitones) ==
    IF pos >= Len(s) THEN Returned(<<>>)
    ELSE LET e == match_at(s, pos)
         IN  IF e = -1
             THEN LET rest == re_sub(s, pos + 1, semitones)
                  IN  IF rest.exc # "none" THEN rest
                      ELSE Returned(<<s[pos + 1]>> \o rest.value)
             ELSE LET r == transpose_chord(SubSeq(s, pos + 1, e), semitones)
                  IN  IF r.exc # "none" THEN r
                      ELSE LET rest == re_sub(s, e, semitones)
                           IN  IF rest.exc # "none" THEN rest
                               ELSE Returned(r.value \o rest.value)

RECURSIVE finditer(_, _)
\* the spans [start, stop) of the matches re.sub hands to replace_chord
finditer(s, pos) ==
    IF pos >= Len(s) THEN <<>>
    ELSE LET e == match_at(s, pos)
         IN  IF e = -1 THEN finditer(s, pos + 1)
             ELSE <<[start |-> pos, stop |-> e]>> \o finditer(s, e)

(***************************************************************************)
(* transpose_song                                                          *)
(***************************************************************************)
KeysInvalid(ok, tk) == ~InNOTES(normalize_chord(ok)) \/ ~InNOTES(normalize_chord(tk))

\* the difference without the % 12
key_semitones_nomod(ok, tk) ==
    NOTES_index(normalize_chord(tk)) - NOTES_index(normalize_chord(ok))

\* the distance between the two keys, whichever comes first
key_semitones_abs(ok, tk) ==
    LET d == NOTES_index(normalize_chord(tk)) - NOTES_index(normalize_chord(ok))
    IN  IF d < 0 THEN 0 - d ELSE d

key_semitones(ok, tk) ==
    PyMod(NOTES_index(normalize_chord(tk)) - NOTES_index(normalize_chord(ok)), 12)

\* normalize_chord applied to the whole text before the substitution
transpose_song_whole(text, ok, tk) ==
    IF KeysInvalid(ok, tk) THEN Raised("ValueError", "Tonalidad invalida")
    ELSE re_sub(normalize_chord(text), 0, key_semitones(ok, tk))

\* the result respelled with flats when the target key is written flat
transpose_song_flat_out(text, ok, tk) ==
    IF KeysInvalid(ok, tk) THEN Raised("ValueError", "Tonalidad invalida")
    ELSE LET r == re_sub(text, 0, key_semitones(ok, tk))
         IN  IF r.exc = "none" /\ (\E i \in 1..Len(replacements) : replacements[i][1] = tk)
             THEN Returned(ApplyReplacements(r.value,
                      [i \in 1..Len(replacements) |->
                          <<replacements[i][2], replacements[i][1]>>], 1))
             ELSE r

transpose_song(text, ok, tk) ==
    IF KeysInvalid(ok, tk) THEN Raised("ValueError", "Tonalidad invalida")
    ELSE IF NOTES_index(normalize_chord(tk)) = -1 \/ NOTES_index(normalize_chord(ok)) = -1
         THEN Raised("ValueError", "not in list")
         ELSE re_sub(text, 0, key_semitones(ok, tk))

(***************************************************************************)
(* Inputs                                                                  *)
(***************************************************************************)
SeqsUpTo(S, n) == UNION {[1..k -> S] : k \in 0..n}

Alphabet == {"C", "A", "B", "#", "b", "m", "7", " ", "\n", "/", "o'"}

Texts == SeqsUpTo(Alphabet, MaxLen)

FlatKeys == {replacements[i][1] : i \in 1..Len(replacements)}

ValidKeys == {NOTES[i] : i \in 1..Len(NOTES)} \cup FlatKeys

KeyAlphabet == Letters \cup {"#", "b", "H", "c", "m"}

KeyStrings == SeqsUpTo(KeyAlphabet, MaxKeyLen)

(***************************************************************************)
(* State machine: one call of transpose_song                               *)
(***************************************************************************)
NoResult == Returned(<<>>)

\* request.token when it is None or '': no JWT at all
NoToken == [email |-> "", sig |-> "none", expired |-> FALSE]

NoRequest ==
    [op |-> "none", token |-> NoToken, song_id |-> 0, query |-> <<>>,
     song_text |-> <<>>, original_key |-> <<>>, target_key |-> <<>>,
     song_title |-> <<>>, email |-> ""]

NoResponse == [status |-> 0, transposed |-> <<>>, rows |-> {}]

\* the database after init_db and before any request
ApiIdle ==
    /\ users = {}
    /\ songs = {}
    /\ user_seq = 0
    /\ song_seq = 0
    /\ request = NoRequest
    /\ response = NoResponse

\* C against every valid target (all twelve intervals), flat and sharp
\* originals, equal keys, and one invalid key on either side
KeyPairs ==
    ({<<"C">>} \X ValidKeys)
        \cup { << <<"D","b">>, <<"B","b">> >>, << <<"B","b">>, <<"B","b">> >>,
               << <<"F","#">>, <<"E","b">> >>,
               << <<"H">>, <<"C">> >>, << <<"C">>, <<"H">> >> }

Init ==
    /\ song_text \in Texts
    /\ \E p \in KeyPairs : original_key = p[1] /\ target_key = p[2]
    /\ pc = "called"
    /\ result = NoResult
    /\ matched = <<>>
    /\ replaced = <<>>
    /\ song_semitones = -1
    /\ calls = <<>>
    /\ notes = NOTES
    /\ ApiIdle

InitKeys ==
    /\ song_text = <<"B","b","7">>
    /\ \E k \in KeyStrings, v \in {<<"C">>, <<"B","b">>, <<"H">>, <<>>} :
          \/ original_key = k /\ target_key = v
          \/ original_key = v /\ target_key = k
    /\ pc = "called"
    /\ result = NoResult
    /\ matched = <<>>
    /\ replaced = <<>>
    /\ song_semitones = -1
    /\ calls = <<>>
    /\ notes = NOTES
    /\ ApiIdle

PairAlphabet == {"B", "#", "b", "m", " "}

\* every pair of valid keys, and one invalid key
InitPairs ==
    /\ song_text \in SeqsUpTo(PairAlphabet, MaxLen)
    /\ \E p \in (ValidKeys \X ValidKeys) \cup { << <<"H">>, <<"C">> >> } :
          original_key = p[1] /\ target_key = p[2]
    /\ pc = "called"
    /\ result = NoResult
    /\ matched = <<>>
    /\ replaced = <<>>
    /\ song_semitones = -1
    /\ calls = <<>>
    /\ notes = NOTES
    /\ ApiIdle

\* lines 141-145: a key that does not normalize into NOTES
RaiseInvalidKey ==
    /\ pc = "called"
    /\ KeysInvalid(original_key, target_key)
    /\ result' = transpose_song(song_text, original_key, target_key)
    /\ pc' = "raised"
    /\ UNCHANGED <<song_text, original_key, target_key, matched, replaced, song_semitones>>
    /\ UNCHANGED <<concVars, apiVars>>

\* lines 147-158: the substitution runs to its end
Transpose ==
    /\ pc = "called"
    /\ ~KeysInvalid(original_key, target_key)
    /\ result' = transpose_song(song_text, original_key, target_key)
    /\ pc' = IF result'.exc = "none" THEN "returned" ELSE "raised"
    /\ song_semitones' = key_semitones(original_key, target_key)
    /\ matched' = finditer(song_text, 0)
    /\ replaced' = [j \in 1..Len(matched') |->
          transpose_chord(SubSeq(song_text, matched'[j].start + 1, matched'[j].stop),
                          song_semitones').value]
    /\ UNCHANGED <<song_text, original_key, target_key>>
    /\ UNCHANGED <<concVars, apiVars>>

Next == RaiseInvalidKey \/ Transpose

Spec == Init /\ [][Next]_vars

SpecKeys == InitKeys /\ [][Next]_vars

SpecPairs == InitPairs /\ [][Next]_vars

(***************************************************************************)
(* Interleaved calls of transpose_song                                     *)
(***************************************************************************)
NCallers == 2

Callers == 1..NCallers

\* arguments of the interleaved calls
ConcInputs ==
    { [text |-> <<"B","b"," ","C","m">>, ok |-> <<"C">>, tk |-> <<"D">>],
      [text |-> <<"A","/","C","#","m","\n","B","7">>, ok |-> <<"A","b">>, tk |-> <<"E">>],
      [text |-> <<"C","b"," ","A","m">>, ok |-> <<"G">>, tk |-> <<"G">>],
      [text |-> <<"A","m">>, ok |-> <<"H">>, tk |-> <<"C">>] }

InTable(tbl, x) == \E i \in 1..Len(tbl) : tbl[i] = x

\* tbl.index(x): the 0-based position, or -1 where Python raises ValueError
table_index(tbl, x) ==
    IF InTable(tbl, x) THEN (CHOOSE i \in 1..Len(tbl) : tbl[i] = x) - 1 ELSE -1

\* transpose_chord reading the list NOTES as it is at the time of the call
transpose_chord_in(tbl, chord0, semitones) ==
    IF chord0 = <<>> \/ IsBlank(chord0) THEN Returned(chord0)
    ELSE LET chord  == normalize_chord(chord0)
             root0  == root_match(chord)
             suffix == SubSeq(chord, Len(root0) + 1, Len(chord))
             root   == IF \E i \in 1..Len(root0) : root0[i] = "b"
                       THEN normalize_chord(root0) ELSE root0
         IN  IF root0 = <<>> THEN Returned(chord)
             ELSE IF ~InTable(tbl, root) THEN Returned(chord)
             ELSE Returned(tbl[PyMod(table_index(tbl, root) + semitones, 12) + 1] \o suffix)

RECURSIVE next_match(_, _)
\* offset of the leftmost match of chord_pattern at or after pos, or -1
next_match(s, pos) ==
    IF pos >= Len(s) THEN -1
    ELSE IF match_at(s, pos) # -1 THEN pos ELSE next_match(s, pos + 1)

InitConc ==
    /\ song_text = <<>>
    /\ original_key = <<"C">>
    /\ target_key = <<"C">>
    /\ pc = "idle"
    /\ result = NoResult
    /\ matched = <<>>
    /\ replaced = <<>>
    /\ song_semitones = -1
    /\ calls \in [Callers -> {[text |-> i.text, ok |-> i.ok, tk |-> i.tk, pc |-> "called",
                               semitones |-> -1, pos |-> 0, out |-> <<>>,
                               result |-> NoResult, overlapped |-> FALSE] : i \in ConcInputs}]
    /\ notes = NOTES
    /\ ApiIdle

\* another call is between its first and its last step
Overlaps(c) == \E d \in Callers \ {c} : calls[d].pc = "scanning"

\* lines 141-148 of call c: normalize and validate the keys, compute semitones
ConcBegin(c) ==
    /\ calls[c].pc = "called"
    /\ LET ok == normalize_chord(calls[c].ok)
           tk == normalize_chord(calls[c].tk)
       IN  IF ~InTable(notes, ok) \/ ~InTable(notes, tk)
           THEN calls' = [calls EXCEPT ![c].pc = "raised",
                              ![c].result = Raised("ValueError", "Tonalidad invalida"),
                              ![c].overlapped = @ \/ Overlaps(c)]
           ELSE calls' = [calls EXCEPT ![c].pc = "scanning",
                              ![c].semitones =
                                  PyMod(table_index(notes, tk) - table_index(notes, ok), 12),
                              ![c].overlapped = @ \/ Overlaps(c)]
    /\ UNCHANGED <<songVars, notes, apiVars>>

\* the locals of call c after the next match of re.sub is replaced, or after
\* the rest of the text is copied and the call returns
advance(c) ==
    LET cl == calls[c]
        p  == next_match(cl.text, cl.pos)
        e  == match_at(cl.text, p)
        r  == transpose_chord_in(notes, SubSeq(cl.text, p + 1, e), cl.semitones)
    IN  IF p = -1
        THEN [cl EXCEPT !.pc = "returned",
                        !.out = cl.out \o SubSeq(cl.text, cl.pos + 1, Len(cl.text)),
                        !.result = Returned(cl.out \o SubSeq(cl.text, cl.pos + 1, Len(cl.text))),
                        !.pos = Len(cl.text),
                        !.overlapped = @ \/ Overlaps(c)]
        ELSE [cl EXCEPT !.out = cl.out \o SubSeq(cl.text, cl.pos + 1, p) \o r.value,
                        !.pos = e,
                        !.overlapped = @ \/ Overlaps(c)]

\* the scale is rotated in place while a chord is replaced
ConcStep_rotating(c) ==
    /\ calls[c].pc = "scanning"
    /\ calls' = [calls EXCEPT ![c] = advance(c)]
    /\ notes' = IF calls'[c].pc = "scanning" THEN Tail(notes) \o <<Head(notes)>> ELSE notes
    /\ UNCHANGED <<songVars, apiVars>>

\* lines 150-158 of call c: one match replaced, or the end of re.sub
ConcStep(c) ==
    /\ calls[c].pc = "scanning"
    /\ calls' = [calls EXCEPT ![c] = advance(c)]
    /\ UNCHANGED <<songVars, notes, apiVars>>

NextConc == \E c \in Callers : ConcBegin(c) \/ ConcStep(c)

SpecConc == InitConc /\ [][NextConc]_vars

(***************************************************************************)
(* HTTP handlers over the tables users and songs                           *)
(***************************************************************************)
MaxSongs == 2

Limit == 20

Emails == {"a@x.org", "b@x.org"}

\* create_token(email), a token with a wrong signature and an expired one
create_token(email) == [email |-> email, sig |-> "ok", expired |-> FALSE]

JwtTokens ==
    {NoToken} \cup {create_token(e) : e \in Emails}
        \cup { [email |-> "a@x.org", sig |-> "bad", expired |-> FALSE],
               [email |-> "b@x.org", sig |-> "ok", expired |-> TRUE] }

\* verify_token: the email of the payload, or "" for None
verify_token(token) ==
    IF token.sig = "ok" /\ ~token.expired THEN token.email ELSE ""

SinTitulo == <<"S","i","n"," ","t","i'","t","u","l","o">>

Desconocido == <<"D","e","s","c","o","n","o","c","i","d","o">>

\* request.song_title: None is the empty sequence (None and '' are both falsy)
ApiTitles == { <<>>, <<"a">> }

ApiTexts == { <<"A","m"," ","C","#">> }

ApiKeyPairs == { << <<"C">>, <<"D">> >>, << <<"H">>, <<"C">> >> }

ApiQueries == { <<"a">>, <<"S">> }

UpperSeq ==
    <<"A","B","C","D","E","F","G","H","I","J","K","L","M",
      "N","O","P","Q","R","S","T","U","V","W","X","Y","Z">>

LowerSeq ==
    <<"a","b","c","d","e","f","g","h","i","j","k","l","m",
      "n","o","p","q","r","s","t","u","v","w","x","y","z">>

\* SQLite's LIKE folds the case of ASCII letters only
fold(c) ==
    IF \E i \in 1..Len(UpperSeq) : UpperSeq[i] = c
    THEN LowerSeq[CHOOSE i \in 1..Len(UpperSeq) : UpperSeq[i] = c]
    ELSE c

RECURSIVE like(_, _)
\* s LIKE pat, with the wildcards % and _
like(pat, s) ==
    IF pat = <<>> THEN s = <<>>
    ELSE IF Head(pat) = "%"
         THEN like(Tail(pat), s) \/ (s # <<>> /\ like(pat, Tail(s)))
         ELSE /\ s # <<>>
              /\ (Head(pat) = "_" \/ fold(Head(pat)) = fold(Head(s)))
              /\ like(Tail(pat), Tail(s))

\* SELECT id FROM users WHERE email = ?: the ids found (at most one)
user_ids(email) == {u.id : u \in {x \in users : x.email = email}}

\* songs s JOIN users u ON s.user_id = u.id WHERE u.email = ?
songs_of(email) == {s \in songs : s.user_id \in user_ids(email)}

full_row(s) ==
    [id |-> s.id, title |-> s.title, artist |-> s.artist, original |-> s.original_song,
     transposed |-> s.transposed_song, original_key |-> s.original_key,
     target_key |-> s.target_key]

short_row(s) ==
    [id |-> s.id, title |-> s.title, artist |-> s.artist,
     original_key |-> s.original_key, target_key |-> s.target_key]

InitApi ==
    /\ song_text = <<>>
    /\ original_key = <<"C">>
    /\ target_key = <<"C">>
    /\ pc = "idle"
    /\ result = NoResult
    /\ matched = <<>>
    /\ replaced = <<>>
    /\ song_semitones = -1
    /\ calls = <<>>
    /\ notes = NOTES
    /\ ApiIdle

\* POST /api/register
Register ==
    \E e \in Emails :
        /\ request' = [NoRequest EXCEPT !.op = "register", !.email = e]
        /\ IF \E u \in users : u.email = e
           THEN /\ response' = [NoResponse EXCEPT !.status = 400]
                /\ UNCHANGED <<users, user_seq>>
           ELSE /\ users' = users \cup {[id |-> user_seq + 1, email |-> e]}
                /\ user_seq' = user_seq + 1
                /\ response' = [NoResponse EXCEPT !.status = 200]
        /\ UNCHANGED <<songs, song_seq, songVars, concVars>>

\* the row is inserted for every token that verifies, user or no user
ApiTranspose_nocheck ==
    \E text \in ApiTexts, kp \in ApiKeyPairs :
      \E t \in {transpose_song(text, kp[1], kp[2])}, title \in ApiTitles, token \in JwtTokens :
        LET email == verify_token(token)
            uid   == IF user_ids(email) = {} THEN 0 ELSE CHOOSE i \in user_ids(email) : TRUE
            save  == t.exc = "none" /\ token.sig # "none" /\ email # ""
        IN  /\ save => song_seq < MaxSongs
            /\ request' = [NoRequest EXCEPT !.op = "transpose", !.token = token,
                              !.song_text = text, !.original_key = kp[1],
                              !.target_key = kp[2], !.song_title = title]
            /\ IF t.exc # "none"
               THEN response' = [NoResponse EXCEPT !.status = 400]
               ELSE response' = [NoResponse EXCEPT !.status = 200, !.transposed = t.value]
            /\ IF save
               THEN /\ songs' = songs \cup
                          {[id |-> song_seq + 1, user_id |-> uid,
                            title |-> IF title = <<>> THEN SinTitulo ELSE title,
                            artist |-> Desconocido,
                            original_song |-> text, transposed_song |-> t.value,
                            original_key |-> kp[1], target_key |-> kp[2]]}
                    /\ song_seq' = song_seq + 1
               ELSE UNCHANGED <<songs, song_seq>>
            /\ UNCHANGED <<users, user_seq, songVars, concVars>>

\* POST /api/transpose
ApiTranspose ==
    \E text \in ApiTexts, kp \in ApiKeyPairs :
      \E t \in {transpose_song(text, kp[1], kp[2])}, title \in ApiTitles, token \in JwtTokens :
        LET email == verify_token(token)
            uid   == IF user_ids(email) = {} THEN 0 ELSE CHOOSE i \in user_ids(email) : TRUE
            save  == t.exc = "none" /\ token.sig # "none" /\ email # "" /\ user_ids(email) # {}
        IN  /\ save => song_seq < MaxSongs
            /\ request' = [NoRequest EXCEPT !.op = "transpose", !.token = token,
                              !.song_text = text, !.original_key = kp[1],
                              !.target_key = kp[2], !.song_title = title]
            /\ IF t.exc # "none"
               THEN response' = [NoResponse EXCEPT !.status = 400]
               ELSE response' = [NoResponse EXCEPT !.status = 200, !.transposed = t.value]
            /\ IF save
               THEN /\ songs' = songs \cup
                          {[id |-> song_seq + 1, user_id |-> uid,
                            title |-> IF title = <<>> THEN SinTitulo ELSE title,
                            artist |-> Desconocido,
                            original_song |-> text, transposed_song |-> t.value,
                            original_key |-> kp[1], target_key |-> kp[2]]}
                    /\ song_seq' = song_seq + 1
               ELSE UNCHANGED <<songs, song_seq>>
            /\ UNCHANGED <<users, user_seq, songVars, concVars>>

\* GET /api/my-songs
GetMySongs ==
    \E token \in JwtTokens :
        /\ request' = [NoRequest EXCEPT !.op = "my-songs", !.token = token]
        /\ IF verify_token(token) = ""
           THEN response' = [NoResponse EXCEPT !.status = 401]
           ELSE response' = [NoResponse EXCEPT !.status = 200,
                                !.rows = {full_row(s) : s \in songs_of(verify_token(token))}]
        /\ UNCHANGED <<users, songs, user_seq, song_seq, songVars, concVars>>

\* POST /api/search
SearchSongs ==
    \E token \in JwtTokens, query \in ApiQueries :
        LET pattern == <<"%">> \o query \o <<"%">>
            found   == {s \in songs_of(verify_token(token)) :
                           like(pattern, s.title) \/ like(pattern, s.artist)}
        IN  /\ request' = [NoRequest EXCEPT !.op = "search", !.token = token, !.query = query]
            /\ IF verify_token(token) = ""
               THEN response' = [NoResponse EXCEPT !.status = 401]
               ELSE \E kept \in SUBSET found :
                       /\ Cardinality(kept) = IF Cardinality(found) > Limit
                                              THEN Limit ELSE Cardinality(found)
                       /\ response' = [NoResponse EXCEPT !.status = 200,
                                          !.rows = {short_row(s) : s \in kept}]
            /\ UNCHANGED <<users, songs, user_seq, song_seq, songVars, concVars>>

\* GET /api/song/{song_id}
GetSong ==
    \E token \in JwtTokens, song_id \in 1..MaxSongs :
        LET found == {s \in songs_of(verify_token(token)) : s.id = song_id}
        IN  /\ request' = [NoRequest EXCEPT !.op = "get", !.token = token, !.song_id = song_id]
            /\ IF verify_token(token) = ""
               THEN response' = [NoResponse EXCEPT !.status = 401]
               ELSE IF found = {}
                    THEN response' = [NoResponse EXCEPT !.status = 404]
                    ELSE response' = [NoResponse EXCEPT !.status = 200,
                                         !.rows = {full_row(s) : s \in found}]
            /\ UNCHANGED <<users, songs, user_seq, song_seq, songVars, concVars>>

\* DELETE FROM songs WHERE id = ?, whoever owns the song
DeleteSong_any ==
    \E token \in JwtTokens, song_id \in 1..MaxSongs :
        LET doomed == {s \in songs : s.id = song_id}
        IN  /\ request' = [NoRequest EXCEPT !.op = "delete", !.token = token, !.song_id = song_id]
            /\ IF verify_token(token) = ""
               THEN /\ response' = [NoResponse EXCEPT !.status = 401]
                    /\ UNCHANGED songs
               ELSE /\ songs' = songs \ doomed
                    /\ response' = [NoResponse EXCEPT
                                       !.status = IF doomed # {} THEN 200 ELSE 404]
            /\ UNCHANGED <<users, user_seq, song_seq, songVars, concVars>>

\* DELETE /api/song/{song_id}
DeleteSong ==
    \E token \in JwtTokens, song_id \in 1..MaxSongs :
        LET doomed == {s \in songs : s.id = song_id /\ s.user_id \in user_ids(verify_token(token))}
        IN  /\ request' = [NoRequest EXCEPT !.op = "delete", !.token = token, !.song_id = song_id]
            /\ IF verify_token(token) = ""
               THEN /\ response' = [NoResponse EXCEPT !.status = 401]
                    /\ UNCHANGED songs
               ELSE /\ songs' = songs \ doomed
                    /\ response' = [NoResponse EXCEPT
                                       !.status = IF doomed # {} THEN 200 ELSE 404]
            /\ UNCHANGED <<users, user_seq, song_seq, songVars, concVars>>

NextApi ==
    \/ Register
    \/ ApiTranspose
    \/ GetMySongs
    \/ SearchSongs
    \/ GetSong
    \/ DeleteSong

SpecApi == InitApi /\ [][NextApi]_vars

TypeOK ==
    /\ pc \in {"idle", "called", "raised", "returned"}
    /\ result.exc \in {"none", "ValueError"}

(***************************************************************************)
(* Vocabulary of the properties                                            *)
(***************************************************************************)
\* the 17 recognized key spellings
RecognizedSpellings ==
    { <<"C">>, <<"C","#">>, <<"D">>, <<"D","#">>, <<"E">>, <<"F">>,
      <<"F","#">>, <<"G">>, <<"G","#">>, <<"A">>, <<"A","#">>, <<"B">>,
      <<"D","b">>, <<"E","b">>, <<"G","b">>, <<"A","b">>, <<"B","b">> }

\* flat alias and its sharp equivalent
EnharmonicPairs ==
    { << <<"D","b">>, <<"C","#">> >>, << <<"E","b">>, <<"D","#">> >>,
      << <<"G","b">>, <<"F","#">> >>, << <<"A","b">>, <<"G","#">> >>,
      << <<"B","b">>, <<"A","#">> >> }

\* which of the two keys of a call are not recognized spellings
Offending(ok, tk) ==
    (IF ok \in RecognizedSpellings THEN {} ELSE {"original_key"})
        \cup (IF tk \in RecognizedSpellings THEN {} ELSE {"target_key"})

(***************************************************************************)
(* C1..C10                                                                 *)
(***************************************************************************)
\* C1: round trip -- transposing the returned text back from target_key to
\* original_key gives the text of the call, character for character.
C1_RoundTrip ==
    pc = "returned" =>
        transpose_song(result.value, target_key, original_key) = Returned(song_text)

\* C2: identity -- a call whose two keys are the same valid key returns the
\* text unchanged, flat-spelled chord tokens included.
C2_Identity ==
    (pc = "returned" /\ original_key = target_key) => result.value = song_text

\* C3: key validation -- the call raises the invalid-key ValueError exactly
\* when at least one of its keys is not one of the 17 recognized spellings.
C3_KeyValidation ==
    pc # "called" =>
        /\ (original_key \in RecognizedSpellings /\ target_key \in RecognizedSpellings)
               => (pc = "returned" /\ result.exc = "none")
        /\ (original_key \notin RecognizedSpellings \/ target_key \notin RecognizedSpellings)
               => (pc = "raised" /\ result = Raised("ValueError", "Tonalidad invalida"))

\* a key outside the 17 spellings that substring replacement rewrites
\* ('Dbm' becomes 'C#m') has been rejected
C3_Witness ==
    /\ pc = "raised"
    /\ original_key = <<"D","b","m">>
    /\ normalize_chord(original_key) = <<"C","#","m">>
    /\ target_key = <<"C">>

\* C4: the error of a failing call identifies the offending key(s) -- a
\* failing call with other offending keys raises a different error.
C4_ErrorIdentifiesKey ==
    pc = "raised" =>
        \A k3 \in {original_key, target_key}, k4 \in {original_key, target_key} :
            (Offending(k3, k4) # {} /\ Offending(k3, k4) # Offending(original_key, target_key))
                => transpose_song(song_text, k3, k4) # result

\* C5: with two valid keys the call returns a string and raises nothing,
\* whatever the text; a raise comes from a key only.
C5_NeverRaisesOnText ==
    /\ (pc # "called" /\ Offending(original_key, target_key) = {})
           => (pc = "returned" /\ result.exc = "none")
    /\ pc = "raised" => Offending(original_key, target_key) # {}

\* a text whose token has a root that does not normalize ('B#m') came back
C5_Witness ==
    /\ pc = "returned"
    /\ song_text = <<"B","#","m">>
    /\ matched = <<[start |-> 0, stop |-> 3]>>
    /\ Offending(original_key, target_key) = {}

\* C6: every recognized spelling normalizes to a canonical name, a flat
\* alias to the same one as its sharp equivalent, and a call with a flat
\* key has the result of the call with the sharp key in its place.
C6_KeyNormalization ==
    pc # "called" =>
        /\ \A k \in {original_key, target_key} \cap RecognizedSpellings :
              InNOTES(normalize_chord(k))
        /\ \A p \in EnharmonicPairs :
              /\ original_key \in {p[1], p[2]} => normalize_chord(original_key) = p[2]
              /\ target_key \in {p[1], p[2]} => normalize_chord(target_key) = p[2]
              /\ original_key = p[1]
                    => result = transpose_song(song_text, p[2], target_key)
              /\ target_key = p[1]
                    => result = transpose_song(song_text, original_key, p[2])

\* a call with two flat keys changed a chord
C6_Witness ==
    /\ pc = "returned"
    /\ original_key = <<"D","b">>
    /\ target_key = <<"B","b">>
    /\ song_text = <<"C","m">>
    /\ result.value = <<"A","m">>

\* the end of a token as C10 words it: a word boundary, or a '#' followed by
\* a space, a slash, a line break or the end of the text
TokenEndsAt(s, e) ==
    \/ Boundary(s, e)
    \/ /\ e > 0 /\ s[e] = "#"
       /\ (e = Len(s) \/ s[e + 1] \in {" ", "/", "\n"})

RECURSIVE TokenMarkers(_, _, _)
\* zero or more markers from offset i, then the end of the token
TokenMarkers(s, i, a) ==
    IF a > Len(markers) + 1
    THEN IF TokenEndsAt(s, i) THEN i ELSE -1
    ELSE LET n == AltLen(s, i, a)
             r == IF n > 0 THEN TokenMarkers(s, i + n, 1) ELSE -1
         IN  IF r # -1 THEN r ELSE TokenMarkers(s, i, a + 1)

\* length of the root at offset p: the letter plus the accidental whenever
\* one directly follows
RootLen(s, p) == IF p + 1 < Len(s) /\ s[p + 2] \in Accidentals THEN 2 ELSE 1

\* the token of C10 starting at offset p: its end offset, or -1
TokenAt(s, p) ==
    IF p >= Len(s) \/ ~Boundary(s, p) \/ s[p + 1] \notin Letters THEN -1
    ELSE TokenMarkers(s, p + RootLen(s, p), 1)

RECURSIVE Tokens(_, _)
\* the tokens of C10, scanning left to right
Tokens(s, pos) ==
    IF pos >= Len(s) THEN <<>>
    ELSE LET e == TokenAt(s, pos)
         IN  IF e = -1 THEN Tokens(s, pos + 1)
             ELSE <<[start |-> pos, stop |-> e]>> \o Tokens(s, e)

\* index of a recognized spelling, C = 0 ... B = 11
PitchIndex(root) ==
    CHOOSE i \in 0..11 :
        \/ NOTES[i + 1] = root
        \/ \E p \in EnharmonicPairs : p[1] = root /\ p[2] = NOTES[i + 1]

RECURSIVE Transposed(_, _, _)
\* the text with every token of C10 rewritten as C7 says
Transposed(s, pos, interval) ==
    IF pos >= Len(s) THEN <<>>
    ELSE LET e == TokenAt(s, pos)
             n == RootLen(s, pos)
         IN  IF e = -1 THEN <<s[pos + 1]>> \o Transposed(s, pos + 1, interval)
             ELSE NOTES[((PitchIndex(SubSeq(s, pos + 1, pos + n)) + interval) % 12) + 1]
                      \o SubSeq(s, pos + n + 1, e) \o Transposed(s, e, interval)

Within(m, t) == t.start <= m.start /\ m.stop <= t.stop

\* C7: every chord token with a recognized root, bare or with a suffix, is
\* replaced by canonicalName((index(root) + interval) mod 12) + suffix.
C7_RootTransposition ==
    LET toks == Tokens(song_text, 0)
    IN  ( /\ pc = "returned"
          /\ toks # <<>>
          /\ \A i \in 1..Len(toks) :
                SubSeq(song_text, toks[i].start + 1,
                       toks[i].start + RootLen(song_text, toks[i].start))
                    \in RecognizedSpellings
          /\ \A j \in 1..Len(matched) : \E i \in 1..Len(toks) : Within(matched[j], toks[i]) )
        => result.value = Transposed(song_text, 0, key_semitones(original_key, target_key))

RECURSIVE Rebuild(_, _, _, _, _)
\* the text with the spans from the i-th on replaced and the rest copied
Rebuild(s, spans, i, pos, semitones) ==
    IF i > Len(spans) THEN SubSeq(s, pos + 1, Len(s))
    ELSE SubSeq(s, pos + 1, spans[i].start)
           \o transpose_chord(SubSeq(s, spans[i].start + 1, spans[i].stop), semitones).value
           \o Rebuild(s, spans, i + 1, spans[i].stop, semitones)

\* C8: the returned text is the text of the call with the matched tokens
\* replaced; every character outside a match is kept, in place and order.
C8_VerbatimOutsideMatches ==
    pc = "returned" =>
        /\ \A j \in 1..Len(matched) :
              /\ 0 <= matched[j].start /\ matched[j].start < matched[j].stop
              /\ matched[j].stop <= Len(song_text)
              /\ j > 1 => matched[j - 1].stop <= matched[j].start
        /\ result.value =
              Rebuild(song_text, matched, 1, 0, key_semitones(original_key, target_key))

\* a chord after an accented letter and a line break was replaced
C8_Witness ==
    /\ pc = "returned"
    /\ song_text = <<"o'", "\n", "A">>
    /\ matched = <<[start |-> 2, stop |-> 3]>>
    /\ result.value = <<"o'", "\n", "B">>

LineBreaks(s) == Cardinality({i \in 1..Len(s) : s[i] = "\n"})

\* len(s.split())
WordCount(s) ==
    Cardinality({i \in 1..Len(s) :
        s[i] \notin Whitespace /\ (i = 1 \/ s[i - 1] \in Whitespace)})

\* C9: the returned text has as many line breaks and as many
\* whitespace-separated words as the text of the call.
C9_StructurePreserved ==
    pc = "returned" =>
        /\ LineBreaks(result.value) = LineBreaks(song_text)
        /\ WordCount(result.value) = WordCount(song_text)

\* a minor chord before a line break was replaced
C9_Witness ==
    /\ pc = "returned"
    /\ song_text = <<"A", "m", "\n">>
    /\ LineBreaks(result.value) = 1
    /\ WordCount(result.value) = 1
    /\ result.value # song_text

\* C10: the matches handed to replace_chord are the tokens of the rule:
\* letter, the accidental whenever one follows, markers, end of token.
C10_TokenRecognition ==
    pc = "returned" => matched = Tokens(song_text, 0)

(***************************************************************************)
(* C11..C18                                                                *)
(***************************************************************************)
\* the j-th match of the call, as text
Token(j) == SubSeq(song_text, matched[j].start + 1, matched[j].stop)

RECURSIVE OutStart(_)
\* offset in the returned text of the replacement of the j-th match
OutStart(j) ==
    IF j = 1 THEN matched[1].start
    ELSE OutStart(j - 1) + Len(replaced[j - 1])
             + (matched[j].start - matched[j - 1].stop)

\* the characters of the returned text where the j-th replacement lies
OutToken(j) == SubSeq(result.value, OutStart(j) + 1, OutStart(j) + Len(replaced[j]))

NonNormalizingRoots == { <<"C","b">>, <<"F","b">>, <<"E","#">>, <<"B","#">> }

CanonicalNames == RecognizedSpellings \ {p[1] : p \in EnharmonicPairs}

\* C11: a matched token whose root does not normalize is emitted unchanged,
\* whatever the interval, and the call raises nothing.
C11_SilentFallback ==
    (pc # "called" /\ Offending(original_key, target_key) = {}) =>
        /\ pc = "returned"
        /\ \A j \in 1..Len(matched) :
              root_match(Token(j)) \in NonNormalizingRoots
                  => (replaced[j] = Token(j) /\ OutToken(j) = Token(j))
        /\ (\A j \in 1..Len(matched) : root_match(Token(j)) \in NonNormalizingRoots)
              => result.value = song_text

\* the token 'B#7' came back unchanged from a shift by 5
C11_Witness ==
    /\ pc = "returned"
    /\ song_text = <<"B","#","7">>
    /\ matched = <<[start |-> 0, stop |-> 3]>>
    /\ song_semitones = 5
    /\ result.value = song_text

RECURSIVE Assemble(_, _, _, _, _)
\* the text with the spans from the i-th on replaced by repl[i], the rest copied
Assemble(s, spans, repl, i, pos) ==
    IF i > Len(spans) THEN SubSeq(s, pos + 1, Len(s))
    ELSE SubSeq(s, pos + 1, spans[i].start) \o repl[i]
           \o Assemble(s, spans, repl, i + 1, spans[i].stop)

\* C12: the suffix of every matched token is copied character for
\* character after a new root of 1-2 characters, and everything outside
\* the matched tokens, words with a flat-letter sequence included, is kept.
C12_SuffixAndLyricsKept ==
    pc = "returned" =>
        /\ \A j \in 1..Len(matched) :
              LET tok    == Token(j)
                  suffix == SubSeq(tok, Len(root_match(tok)) + 1, Len(tok))
                  n      == Len(replaced[j]) - Len(suffix)
              IN  /\ n \in {1, 2}
                  /\ SubSeq(replaced[j], n + 1, Len(replaced[j])) = suffix
                  /\ SubSeq(OutToken(j), n + 1, Len(replaced[j])) = suffix
        /\ result.value = Assemble(song_text, matched, replaced, 1, 0)

\* the flat-rooted token 'Bb7' became 'B7', its suffix kept
C12_Witness ==
    /\ pc = "returned"
    /\ song_text = <<"B","b","7">>
    /\ matched = <<[start |-> 0, stop |-> 3]>>
    /\ result.value = <<"B","7">>

\* (index(b) - index(a)) mod 12 with C = 0 ... B = 11
PairInterval(a, b) == (PitchIndex(b) - PitchIndex(a)) % 12

\* C13: the interval of a call is (index(target) - index(original)) mod 12,
\* an integer in 0..11, and 0 when both keys denote the same pitch.
C13_Interval ==
    pc = "returned" =>
        /\ song_semitones \in 0..11
        /\ song_semitones = PairInterval(original_key, target_key)
        /\ normalize_chord(original_key) = normalize_chord(target_key)
              => song_semitones = 0

\* the target Eb lies before the original F# in the scale: interval 9
C13_Witness ==
    /\ pc = "returned"
    /\ original_key = <<"F","#">>
    /\ target_key = <<"E","b">>
    /\ song_semitones = 9
    /\ NOTES_index(normalize_chord(target_key)) < NOTES_index(normalize_chord(original_key))

\* C14: every matched token with a recognized root is shifted by the one
\* interval of the call, and the result is that of the call from C to the
\* key at that interval, so calls with keys of the same interval agree.
C14_OneIntervalPerRequest ==
    pc = "returned" =>
        /\ \A j \in 1..Len(matched) :
              root_match(Token(j)) \in RecognizedSpellings =>
                  PitchIndex(root_match(replaced[j]))
                      = (PitchIndex(root_match(Token(j))) + song_semitones) % 12
        /\ result = transpose_song(song_text, <<"C">>,
                         NOTES[PairInterval(original_key, target_key) + 1])

\* two chords of one text were both shifted by the interval 3 of G -> Bb
C14_Witness ==
    /\ pc = "returned"
    /\ original_key = <<"G">>
    /\ target_key = <<"B","b">>
    /\ song_text = <<"B", " ", "B">>
    /\ result.value = <<"D", " ", "D">>

ThirdKeys == { <<"D">>, <<"B","b">> }

\* C16: composition -- transposing the returned text on from target_key to
\* a third key gives what one call from original_key to the third key gives.
C16_Composition ==
    pc = "returned" =>
        \A k3 \in ThirdKeys :
            transpose_song(result.value, target_key, k3)
                = transpose_song(song_text, original_key, k3)

\* C17: restricted round trip -- when every matched token has a non-empty
\* suffix and a natural or sharp root, transposing the returned text back
\* gives the text of the call.
C17_RestrictedRoundTrip ==
    ( /\ pc = "returned"
      /\ \A j \in 1..Len(matched) :
            /\ Len(Token(j)) > Len(root_match(Token(j)))
            /\ \A i \in 1..Len(root_match(Token(j))) : root_match(Token(j))[i] # "b" )
    => transpose_song(result.value, target_key, original_key) = Returned(song_text)

\* 'C#m' went up to 'D#m' by a call that can be undone
C17_Witness ==
    /\ pc = "returned"
    /\ song_text = <<"C","#","m">>
    /\ matched = <<[start |-> 0, stop |-> 3]>>
    /\ original_key = <<"C">>
    /\ target_key = <<"D">>
    /\ result.value = <<"D","#","m">>

\* C18: a matched token whose root normalizes is emitted with one of the
\* 12 canonical sharp-based names as root, never a flat, interval 0 included.
C18_SharpOnlyOutput ==
    pc = "returned" =>
        \A j \in 1..Len(matched) :
            root_match(Token(j)) \in RecognizedSpellings =>
                /\ root_match(replaced[j]) \in CanonicalNames
                /\ root_match(OutToken(j)) \in CanonicalNames
                /\ \A i \in 1..Len(root_match(OutToken(j))) : root_match(OutToken(j))[i] # "b"

\* the flat-rooted 'Bb' came back as 'A#' from a call with interval 0
C18_Witness ==
    /\ pc = "returned"
    /\ song_semitones = 0
    /\ song_text = <<"B","b">>
    /\ result.value = <<"A","#">>

(***************************************************************************)
(* C15                                                                     *)
(***************************************************************************)
\* C15: interleaved calls are independent -- each call returns (or raises)
\* exactly what it does when run alone, and the shared list NOTES is never
\* modified.
C15_ConcurrentCallsIndependent ==
    /\ notes = NOTES
    /\ \A c \in DOMAIN calls :
          calls[c].pc \in {"returned", "raised"}
              => calls[c].result = transpose_song(calls[c].text, calls[c].ok, calls[c].tk)

\* two calls on different texts both returned after steps of each fell
\* between the first and the last step of the other
C15_Witness ==
    /\ calls # <<>>
    /\ \A c \in DOMAIN calls : calls[c].pc = "returned" /\ calls[c].overlapped
    /\ calls[1].text # calls[2].text
    /\ calls[1].result.value # calls[1].text

(***************************************************************************)
(* C19                                                                     *)
(***************************************************************************)
\* what a POST /api/transpose step does to the table songs and answers
C19_Step ==
    request'.op = "transpose" =>
        \A t \in {transpose_song(request'.song_text, request'.original_key,
                                 request'.target_key)} :
            LET email  == verify_token(request'.token)
                owners == {u.id : u \in {x \in users : x.email = email}}
                added  == songs' \ songs
            IN  /\ songs \subseteq songs'
                /\ users' = users
                /\ t.exc # "none" => response'.status = 400 /\ songs' = songs
                /\ t.exc = "none" =>
                      response'.status = 200 /\ response'.transposed = t.value
                /\ added # {} <=> (t.exc = "none" /\ email # "" /\ owners # {})
                /\ Cardinality(added) <= 1
                /\ \A s \in added :
                      /\ s.user_id \in owners
                      /\ s.original_song = request'.song_text
                      /\ s.transposed_song = t.value
                      /\ s.original_key = request'.original_key
                      /\ s.target_key = request'.target_key

\* C19: /api/transpose inserts a song row only when the transposition
\* succeeded and the token verifies to the email of an existing user, and then
\* exactly one row owned by that user with the original text, the transposed
\* text and both keys; an invalid key answers 400 with songs unchanged; no
\* token, an invalid token or an unknown user gives the transposed text with
\* songs unchanged.
C19_PersistenceOnTranspose == [][C19_Step]_vars

\* the last request was a transposition by a registered user and its row,
\* the newest of the table, holds the request's text and the answer's text
C19_Witness ==
    /\ request.op = "transpose"
    /\ response.status = 200
    /\ \E s \in songs :
          /\ s.id = song_seq
          /\ s.user_id \in user_ids(verify_token(request.token))
          /\ s.original_song = request.song_text
          /\ s.transposed_song = response.transposed
          /\ s.transposed_song # s.original_song

(***************************************************************************)
(* C20                                                                     *)
(***************************************************************************)
\* the songs owned by the user the request's token identifies
C20_Mine ==
    {s \in songs : \E u \in users : u.email = verify_token(request'.token) /\ u.id = s.user_id}

\* reads return owned songs only, a delete removes an owned song only
C20_Isolation ==
    LET email == verify_token(request'.token)
        hit   == {s \in C20_Mine : s.id = request'.song_id}
    IN  /\ request'.op \in {"my-songs", "search", "get"} =>
              /\ songs' = songs
              /\ users' = users
              /\ \A r \in response'.rows : \E s \in C20_Mine : s.id = r.id
        /\ request'.op = "my-songs" /\ email # "" =>
              response'.rows = {full_row(s) : s \in C20_Mine}
        /\ request'.op = "get" /\ email # "" =>
              IF hit = {} THEN response'.status = 404
              ELSE response'.status = 200 /\ response'.rows = {full_row(s) : s \in hit}
        /\ request'.op = "delete" /\ email # "" =>
              /\ songs' = songs \ hit
              /\ users' = users
              /\ response'.status = IF hit = {} THEN 404 ELSE 200

\* a token that does not verify gets 401 from the four song handlers
C20_Unverified401 ==
    (request'.op \in {"my-songs", "search", "get", "delete"}
        /\ verify_token(request'.token) = "")
            => response'.status = 401 /\ songs' = songs /\ users' = users

\* a token that does not verify gets 401 from every handler that takes one
C20_EveryUnverified401 ==
    (request'.op \in {"transpose", "my-songs", "search", "get", "delete"}
        /\ request'.token # NoToken
        /\ verify_token(request'.token) = "")
            => response'.status = 401 /\ songs' = songs /\ users' = users

=============================================================================
